---- MODULE Spec2Model ----
(***************************************************************************)
(* Model of pointers.go: func main takes the address of its local `age`,   *)
(* prints the pointer and the pointee, calls editAgeToAdultYears with the  *)
(* pointer and prints `age` again.  Memory is a heap of integer cells;     *)
(* a pointer is Nil or the address of an allocated cell.  Program          *)
(* positions are named after the source lines of pointers.go.              *)
(*                                                                         *)
(* Spec     : the program, from process start (func main).                 *)
(* FairSpec : the program with the scheduling of a running goroutine.      *)
(* SpecFn   : editAgeToAdultYears applied to every pointer (nil or not)    *)
(*            and every pointee value of the modelled integer width.       *)
(***************************************************************************)
EXTENDS Integers, Sequences, FiniteSets, TLC

\* pointers.go:8  age := 29
InitialAge == 29
\* pointers.go:17  *age -= 18
AdultYears == 18

\* Width in bits of the modelled `int` (Go's int is 32 or 64 bits wide; the
\* wrap-around arithmetic is the same at every width).
IntWidth == 8
\* Number of heap addresses the allocator may hand out.
MaxAddr == 16

\* The nil pointer (zero value of *int); real addresses are 1..MaxAddr.
Nil == 0
Addrs == 1..MaxAddr
Pointers == Addrs \cup {Nil}

MinInt == -(2^(IntWidth - 1))
MaxInt == 2^(IntWidth - 1) - 1
Ints == MinInt..MaxInt

VARIABLES
    pc,        \* position: "L<line>" before that line of pointers.go runs
    mem,       \* heap: address -> integer stored there
    alloc,     \* addresses of live variables
    ageAddr,   \* where main's variable `age` lives (Nil before line 8)
    agePtr,    \* main's variable agePtr (Nil before line 9)
    ageParam,  \* editAgeToAdultYears' parameter `age` (a *int)
    stack,     \* return positions of the calls in progress
    result,    \* values handed back by the last returned call
    out,       \* lines written to standard output
    exit       \* "running", "0" (main returned) or "2" (runtime panic)

vars == <<pc, mem, alloc, ageAddr, agePtr, ageParam, stack, result, out, exit>>

\* No call has returned yet.
NoResult == <<"pending">>

\* Two's-complement wrap-around of Go's signed integer arithmetic.
Wrap_Saturate(x) == IF x < MinInt THEN MinInt ELSE IF x > MaxInt THEN MaxInt ELSE x
Wrap(x) == ((x - MinInt) % (2^IntWidth)) + MinInt

\* The compound assignment `-= 18` on an int.
SubAssign_Add(v) == Wrap(v + AdultYears)
SubAssign(v) == Wrap(v - AdultYears)

\* *p for a non-nil p: the integer stored at p.
Deref_Zero(p) == 0
Deref(p) == mem[p]

\* &age in main.
AddrOfAge_Copy == (ageAddr % MaxAddr) + 1
AddrOfAge == ageAddr

\* How fmt.Println renders its operands: a pointer as its address in hex
\* notation ("<nil>" for nil), an int in decimal; modelled as tagged values.
FmtPtr(p) == IF p = Nil THEN <<"<nil>">> ELSE <<"0x", p>>
FmtInt(v) == <<"dec", v>>
Println(label, operand) == Append(out, <<label, operand>>)

\* The source has no comparison of a pointer with nil: the positions whose
\* dereference is preceded by `if ptr != nil`.
NilChecks == {}
\* The positions that dereference a pointer.
DerefSites == {"L11", "L17"}

\* A runtime panic (nil pointer dereference): the process dies with status 2.
Panic ==
    /\ pc' = "panic"
    /\ exit' = "2"
    /\ UNCHANGED <<mem, alloc, ageAddr, agePtr, ageParam, stack, result, out>>

\* Calling editAgeToAdultYears(p), to resume at position ret.
Call(p, ret) ==
    /\ ageParam' = p
    /\ stack' = <<ret>> \o stack
    /\ pc' = "L17"
    /\ UNCHANGED <<mem, alloc, ageAddr, agePtr, result, out, exit>>

TypeOK ==
    /\ pc \in {"L8", "L9", "L10", "L11", "L12", "L13", "L14", "L17", "L18",
               "exit", "panic", "T_call", "T_done"}
    /\ mem \in [Addrs -> Ints]
    /\ alloc \subseteq Addrs
    /\ ageAddr \in Pointers /\ agePtr \in Pointers /\ ageParam \in Pointers
    /\ exit \in {"running", "0", "2"}

----------------------------------------------------------------------------
\* func main

Init ==
    /\ pc = "L8"
    /\ mem = [a \in Addrs |-> 0]
    /\ alloc = {}
    /\ ageAddr = Nil
    /\ agePtr = Nil
    /\ ageParam = Nil
    /\ stack = <<>>
    /\ result = NoResult
    /\ out = <<>>
    /\ exit = "running"

\* age := 29   (the variable escapes, so it is heap allocated at an address
\* of the allocator's choosing)
L8 ==
    /\ pc = "L8"
    /\ \E a \in Addrs \ alloc :
          /\ ageAddr' = a
          /\ alloc' = alloc \cup {a}
          /\ mem' = [mem EXCEPT ![a] = InitialAge]
    /\ pc' = "L9"
    /\ UNCHANGED <<agePtr, ageParam, stack, result, out, exit>>

\* agePtr := &age
L9_Nil ==
    /\ pc = "L9"
    /\ agePtr' = Nil
    /\ pc' = "L10"
    /\ UNCHANGED <<mem, alloc, ageAddr, ageParam, stack, result, out, exit>>
L9 ==
    /\ pc = "L9"
    /\ agePtr' = AddrOfAge
    /\ pc' = "L10"
    /\ UNCHANGED <<mem, alloc, ageAddr, ageParam, stack, result, out, exit>>

\* fmt.Println("Age Pointer (&agePtr):", agePtr)
L10 ==
    /\ pc = "L10"
    /\ out' = Println("Age Pointer (&agePtr):", FmtPtr(agePtr))
    /\ pc' = "L11"
    /\ UNCHANGED <<mem, alloc, ageAddr, agePtr, ageParam, stack, result, exit>>

\* fmt.Println("Age (*agePtr):", *agePtr)
L11 ==
    /\ pc = "L11"
    /\ IF agePtr = Nil
       THEN Panic
       ELSE /\ out' = Println("Age (*agePtr):", FmtInt(Deref(agePtr)))
            /\ pc' = "L12"
            /\ UNCHANGED <<mem, alloc, ageAddr, agePtr, ageParam, stack, result, exit>>

\* editAgeToAdultYears(agePtr)
L12 ==
    /\ pc = "L12"
    /\ Call(agePtr, "L13")

\* fmt.Println("Adult years:", age)
L13_Silent ==
    /\ pc = "L13"
    /\ pc' = "L14"
    /\ UNCHANGED <<mem, alloc, ageAddr, agePtr, ageParam, stack, result, out, exit>>
L13_Again ==
    /\ pc = "L13"
    /\ out' = Println("Adult years:", FmtInt(mem[ageAddr]))
    /\ mem' = [mem EXCEPT ![ageAddr] = SubAssign(mem[ageAddr])]
    /\ pc' = "L14"
    /\ UNCHANGED <<alloc, ageAddr, agePtr, ageParam, stack, result, exit>>
L13 ==
    /\ pc = "L13"
    /\ out' = Println("Adult years:", FmtInt(mem[ageAddr]))
    /\ pc' = "L14"
    /\ UNCHANGED <<mem, alloc, ageAddr, agePtr, ageParam, stack, result, exit>>

\* } of main: the process ends with status 0
L14 ==
    /\ pc = "L14"
    /\ pc' = "exit"
    /\ exit' = "0"
    /\ UNCHANGED <<mem, alloc, ageAddr, agePtr, ageParam, stack, result, out>>

----------------------------------------------------------------------------
\* func editAgeToAdultYears(age *int)

\* *age -= 18
L17_ByValue ==
    /\ pc = "L17"
    /\ IF ageParam = Nil
       THEN Panic
       ELSE /\ pc' = "L18"
            /\ UNCHANGED <<mem, alloc, ageAddr, agePtr, ageParam, stack, result, out, exit>>
L17_Guarded ==
    /\ pc = "L17"
    /\ IF ageParam = Nil
       THEN /\ pc' = "L18"
            /\ UNCHANGED <<mem, alloc, ageAddr, agePtr, ageParam, stack, result, out, exit>>
       ELSE /\ mem' = [mem EXCEPT ![ageParam] = SubAssign(Deref(ageParam))]
            /\ pc' = "L18"
            /\ UNCHANGED <<alloc, ageAddr, agePtr, ageParam, stack, result, out, exit>>
L17 ==
    /\ pc = "L17"
    /\ IF ageParam = Nil
       THEN Panic
       ELSE /\ mem' = [mem EXCEPT ![ageParam] = SubAssign(Deref(ageParam))]
            /\ pc' = "L18"
            /\ UNCHANGED <<alloc, ageAddr, agePtr, ageParam, stack, result, out, exit>>

\* } of editAgeToAdultYears: back to the caller, with no result
L18_Loop ==
    /\ pc = "L18"
    /\ pc' = "L17"
    /\ UNCHANGED <<mem, alloc, ageAddr, agePtr, ageParam, stack, result, out, exit>>
L18 ==
    /\ pc = "L18"
    /\ pc' = Head(stack)
    /\ stack' = Tail(stack)
    /\ result' = <<>>
    /\ UNCHANGED <<mem, alloc, ageAddr, agePtr, ageParam, out, exit>>

----------------------------------------------------------------------------
Next == L8 \/ L9 \/ L10 \/ L11 \/ L12 \/ L17 \/ L18 \/ L13 \/ L14

Spec == Init /\ [][Next]_vars

\* A Go program with one goroutine that is never blocked keeps running
\* until main returns or the runtime panics.
FairSpec == Init /\ [][Next]_vars /\ WF_vars(Next)

----------------------------------------------------------------------------
\* editAgeToAdultYears on its own: a caller holding an int variable with any
\* value, and a pointer that is nil or the variable's address.

InitFn ==
    /\ pc = "T_call"
    /\ \E a \in Addrs, v \in Ints :
          /\ ageAddr = a
          /\ alloc = {a}
          /\ mem = [x \in Addrs |-> IF x = a THEN v ELSE 0]
          /\ agePtr \in {Nil, a}
    /\ ageParam = Nil
    /\ stack = <<>>
    /\ result = NoResult
    /\ out = <<>>
    /\ exit = "running"

T_call ==
    /\ pc = "T_call"
    /\ Call(agePtr, "T_done")

NextFn == T_call \/ L17 \/ L18

SpecFn == InitFn /\ [][NextFn]_vars

----------------------------------------------------------------------------
\* Properties of the program (Spec, FairSpec)

\* C1: age is initialised to 29 and, once editAgeToAdultYears(agePtr) has
\* returned, the value of age that main prints as its last line is
\* 29 - 18 = 11.
C1_EndToEnd ==
    /\ (pc = "L9" => mem[ageAddr] = 29)
    /\ (pc \in {"L14", "exit"} =>
            /\ out[Len(out)] = <<"Adult years:", FmtInt(11)>>
            /\ mem[ageAddr] = InitialAge - AdultYears)
C1_Witness == pc = "exit" /\ out[Len(out)] = <<"Adult years:", FmtInt(11)>>

\* C3: from agePtr := &age on, agePtr is the address of age, so *agePtr is
\* the current value of age; the callee's parameter is that same address,
\* and the value main re-reads from age after the call is the value written
\* through the pointer (18 less than the one read through it before).
C3_Aliasing ==
    /\ (pc \notin {"L8", "L9"} =>
            /\ agePtr # Nil
            /\ agePtr = ageAddr
            /\ Deref(agePtr) = mem[ageAddr])
    /\ (pc \in {"L17", "L18"} => ageParam = ageAddr)
    /\ (pc \in {"L14", "exit"} =>
            /\ out[3][2] = FmtInt(Deref(agePtr))
            /\ out[3][2][2] = out[2][2][2] - AdultYears)
C3_Witness ==
    pc = "L14" /\ agePtr = ageAddr /\ out[3][2][2] = out[2][2][2] - AdultYears

\* C4: the dereference *agePtr that main prints before the call of
\* editAgeToAdultYears is the value assigned to age at the start, 29.
C4_InitialRead ==
    /\ (Len(out) >= 2 => out[2] = <<"Age (*agePtr):", FmtInt(InitialAge)>>)
    /\ (pc = "L12" => Len(out) = 2 /\ stack = <<>> /\ result = NoResult)
C4_Witness == pc = "L12" /\ out[2] = <<"Age (*agePtr):", FmtInt(29)>>

\* C5: main writes exactly three lines, in this order: the pointer's
\* address, the dereferenced value, the final value; the second is written
\* before the call and the third only after the call has returned.
C5_OutputOrder ==
    /\ (pc \in {"L8", "L9", "L10"} => Len(out) = 0)
    /\ (pc = "L11" => Len(out) = 1)
    /\ (pc \in {"L12", "L17", "L18", "L13"} => Len(out) = 2)
    /\ (pc \in {"L14", "exit"} => Len(out) = 3)
    /\ Len(out) <= 3
    /\ (Len(out) >= 1 => out[1] = <<"Age Pointer (&agePtr):", <<"0x", ageAddr>>>>)
    /\ (Len(out) >= 2 => out[2][1] = "Age (*agePtr):" /\ out[2][2][1] = "dec")
    /\ (Len(out) >= 3 => out[3] = <<"Adult years:", FmtInt(mem[ageAddr])>>)
C5_Witness == pc = "exit" /\ Len(out) = 3 /\ out[1][2][1] = "0x"

\* C6: the pointer that main passes to editAgeToAdultYears, and that is
\* dereferenced there, is never nil: it is the address of the live variable
\* age; the panic state is unreachable.
C6_NeverNil ==
    /\ pc # "panic"
    /\ exit # "2"
    /\ (pc \in {"L11", "L12"} => agePtr # Nil /\ agePtr \in alloc)
    /\ (pc \in {"L17", "L18"} => ageParam # Nil /\ ageParam \in alloc)
C6_Witness == pc = "L17" /\ ageParam # Nil /\ ageParam = ageAddr

\* C7: every execution terminates: main reaches its end, after the one call
\* has returned, with exit status 0 and not in the panic state.
C7_Terminates == <>[](pc = "exit" /\ exit = "0" /\ stack = <<>>)
C7_Witness == pc = "exit" /\ exit = "0" /\ stack = <<>> /\ result = <<>>

\* C8: age is 29 in every state before the step *age -= 18 and 11 in every
\* state after it; that step, through the pointer, is the only one that
\* changes age after its creation at line 8; agePtr is set only at line 9
\* and the variable's address only at line 8.
C8_Lifecycle ==
    /\ [](/\ (pc \in {"L9", "L10", "L11", "L12", "L17"} => mem[ageAddr] = 29)
          /\ (pc \in {"L18", "L13", "L14", "exit"} => mem[ageAddr] = 11))
    /\ [][/\ (mem' # mem => pc \in {"L8", "L17"})
          /\ (pc = "L17" => mem' = [mem EXCEPT ![ageParam] = mem[ageParam] - 18])
          /\ (agePtr' # agePtr => pc = "L9")
          /\ (ageAddr' # ageAddr \/ alloc' # alloc => pc = "L8")]_vars
C8_Witness == pc = "exit" /\ mem[ageAddr] = 11 /\ agePtr = ageAddr /\ alloc = {ageAddr}

----------------------------------------------------------------------------
\* Properties of editAgeToAdultYears (SpecFn)

\* C2: for a non-nil pointer whose pointee v does not underflow, the step
\* *age -= 18 leaves exactly v - 18 in the pointee and nothing else changed,
\* and the return hands back no value and leaves memory alone.
C2_SubtractsEighteen ==
    [][/\ (pc = "L17" /\ ageParam # Nil /\ mem[ageParam] >= MinInt + 18 =>
                /\ mem'[ageParam] = mem[ageParam] - 18
                /\ \A a \in Addrs \ {ageParam} : mem'[a] = mem[a]
                /\ pc' = "L18")
       /\ (pc = "L18" => result' = <<>> /\ mem' = mem /\ pc' = "T_done")]_vars
C2_Witness ==
    /\ pc = "T_done" /\ agePtr # Nil /\ result = <<>>
    /\ mem[agePtr] <= MaxInt - 18

C10_WrapsOnUnderflow ==
    [][pc = "L17" /\ ageParam # Nil =>
            LET v == mem[ageParam]
                u == (v - 18) % (2^IntWidth)
                signed == IF u >= 2^(IntWidth - 1) THEN u - 2^IntWidth ELSE u
            IN  /\ pc' = "L18"
                /\ exit' = "running"
                /\ mem'[ageParam] = signed
                /\ (v < MinInt + 18 =>
                        /\ mem'[ageParam] = v - 18 + 2^IntWidth
                        /\ mem'[ageParam] > v)]_vars
C10_Witness == pc = "T_done" /\ agePtr # Nil /\ mem[agePtr] > MaxInt - 18

====
